---- MODULE Spec2Model ----
(***************************************************************************)
(* X402InsuranceV8: pool accounting and settlement engine.                 *)
(*                                                                         *)
(* Every public function of the contract is one action.  A call that hits  *)
(* a failing require, an arithmetic underflow or a failed token transfer   *)
(* reverts and leaves no trace in the state, so the action's guard is the  *)
(* conjunction of what the call needs to go through.  `last` records the   *)
(* most recent call that went through.                                     *)
(* Amounts are integers in the smallest currency unit; the model keeps     *)
(* DECIMALS decimal places instead of the token's six so that products     *)
(* such as availableFunds * amount stay inside TLC's integers.             *)
(***************************************************************************)
EXTENDS Integers, Sequences, FiniteSets, TLC

\* ------------------------------------------------------------------ bounds
DECIMALS == 2            \* decimal places kept by the model
MaxTicks == 2            \* how many times the clock advances
MaxCalls == 5            \* how many calls go through in one behaviour

USDC == 10 ^ DECIMALS

\* --------------------------------------------------------------- constants
MIN_POOL_BALANCE == 10 * USDC
MAX_POOL_BALANCE == 1000000 * USDC
MIN_CLAIM_AMOUNT == 1 * (USDC \div 10)
MAX_CLAIM_AMOUNT == 10000 * USDC
PENALTY_RATE == 1000
PLATFORM_FEE_RATE == 100
MAX_EXPOSURE_RATIO == 8000
minutes == 60

\* ------------------------------------------------------------------ inputs
Providers == {"p1", "p2"}
Clients == {"c1"}
Owner == "owner"
Engine == "engine"
CommitmentOrder == <<"k1", "k2", "k3">>
Commitments == {CommitmentOrder[i] : i \in 1 .. Len(CommitmentOrder)}
NoAddress == "0x0"

RegisterAmounts == {10 * USDC, 5 * USDC}
DepositAmounts == {6 * USDC}
WithdrawAmounts == {6 * USDC}
ClaimAmounts == {4 * USDC, 10 * USDC}
FundAmounts == {1 * USDC}
ClaimReasons == {"NOT_DELIVERED"}
StartTime == 1

VARIABLES
    providers,                      \* mapping(address => ProviderData)
    claims,                         \* mapping(bytes32 => ClaimInfo)
    providerPendingCompensations,   \* mapping(address => bytes32[])
    pendingCompensations,           \* mapping(bytes32 => PendingCompensation)
    totalProviderPools,
    emergencyPool,
    platformInsuranceFund,
    totalClaimsInitiated,
    totalClaimsExecuted,
    totalPendingCompensations,
    now,                            \* block.timestamp
    ticks,                          \* clock advances so far
    calls,                          \* calls gone through so far
    paidOut,                        \* per claim, total sent to its client
    held,                           \* the contract's balance on the token ledger
    last,                           \* record of the most recent call
    frozen,                         \* accounts the token ledger refuses to move funds of
    guardStatus,                    \* ReentrancyGuard's _status
    frame,                          \* the call suspended inside its transfer, if any
    lockedFor                       \* per claim, what initiateClaim added to totalLocked

engine == <<providers, claims, providerPendingCompensations, pendingCompensations,
            totalProviderPools, emergencyPool, platformInsuranceFund,
            totalClaimsInitiated, totalClaimsExecuted, totalPendingCompensations,
            paidOut, held>>

vars == <<providers, claims, providerPendingCompensations, pendingCompensations,
          totalProviderPools, emergencyPool, platformInsuranceFund,
          totalClaimsInitiated, totalClaimsExecuted, totalPendingCompensations,
          now, ticks, calls, paidOut, held, last, frozen, guardStatus, frame, lockedFor>>

\* ------------------------------------------------------------- zero values
EmptyProvider ==
    [isActive |-> FALSE, poolBalance |-> 0, totalLocked |-> 0,
     successfulServices |-> 0, failedServices |-> 0, tier |-> 0, registeredAt |-> 0]

EmptyClaim ==
    [client |-> NoAddress, provider |-> NoAddress, requestedAmount |-> 0,
     paidAmount |-> 0, pendingAmount |-> 0, initiatedAt |-> 0, disputeDeadline |-> 0,
     reason |-> "NOT_DELIVERED", status |-> "INITIATED"]

EmptyCompensation ==
    [commitment |-> "", client |-> NoAddress, amount |-> 0, createdAt |-> 0, isPaid |-> FALSE]

\* No call is suspended.
NoFrame == [op |-> "none", sender |-> NoAddress, commitment |-> "", amount |-> 0]

NoRun == [ran |-> FALSE, availableFunds |-> 0, totalPending |-> 0, pays |-> <<>>]

Call(op, sender, provider, commitment, amount, dist) ==
    [op |-> op, sender |-> sender, provider |-> provider, commitment |-> commitment,
     amount |-> amount, dist |-> dist]

Init ==
    /\ providers = [p \in Providers |-> EmptyProvider]
    /\ claims = [k \in Commitments |-> EmptyClaim]
    /\ providerPendingCompensations = [p \in Providers |-> <<>>]
    /\ pendingCompensations = [k \in Commitments |-> EmptyCompensation]
    /\ totalProviderPools = 0
    /\ emergencyPool = 0
    /\ platformInsuranceFund = 0
    /\ totalClaimsInitiated = 0
    /\ totalClaimsExecuted = 0
    /\ totalPendingCompensations = 0
    /\ now = StartTime
    /\ ticks = 0
    /\ calls = 0
    /\ paidOut = [k \in Commitments |-> 0]
    /\ held = 0
    /\ last = Call("constructor", Owner, NoAddress, "", 0, NoRun)
    /\ frozen = {}
    /\ guardStatus = "NOT_ENTERED"
    /\ frame = NoFrame
    /\ lockedFor = [k \in Commitments |-> 0]

\* ---------------------------------------------------------------- helpers
\* modifier nonReentrant: the call is refused while the guard is entered.
NonReentrant == guardStatus = "NOT_ENTERED"

\* The answer of usdcToken.transfer / transferFrom: the ledger moves the
\* funds unless it has frozen the sending or the receiving account.
Transfers(from, to) == from \notin frozen /\ to \notin frozen

Min(a, b) == IF a <= b THEN a ELSE b

\* (x * PENALTY_RATE) / 10000, integer division
Penalty(x) == (x * PENALTY_RATE) \div 10000

\* (x * PLATFORM_FEE_RATE) / 10000, integer division
PlatformFee(x) == (x * PLATFORM_FEE_RATE) \div 10000

\* amount + penaltyAmount + platformFee
TotalRequired(x) == x + Penalty(x) + PlatformFee(x)

\* poolBalance > totalLocked ? poolBalance - totalLocked : 0
Available(pd) ==
    IF pd.poolBalance > pd.totalLocked THEN pd.poolBalance - pd.totalLocked ELSE 0

\* Faulty variant: the table's limits are exclusive.
GetDisputePeriodExclusive(amount) ==
    IF amount < 10 * USDC THEN 1 * minutes
    ELSE IF amount < 100 * USDC THEN 5 * minutes
    ELSE IF amount < 1000 * USDC THEN 15 * minutes
    ELSE 30 * minutes

\* _getDisputePeriod
GetDisputePeriod(amount) ==
    IF amount <= 10 * USDC THEN 1 * minutes
    ELSE IF amount <= 100 * USDC THEN 5 * minutes
    ELSE IF amount <= 1000 * USDC THEN 15 * minutes
    ELSE 30 * minutes

\* ------------------------------------------------- compensation distributor
\* The part of the engine state _processProportionalCompensations reads and
\* writes, threaded through its loops.  pays lists, in queue order, every
\* unsettled entry met by the payment loop with its amount before the run and
\* the payment made; reverted says that a subtraction underflowed or that
\* the contract held too few tokens for a transfer, which reverts the call.
Snapshot ==
    [providers |-> providers, claims |-> claims,
     queue |-> providerPendingCompensations, comps |-> pendingCompensations,
     totalProviderPools |-> totalProviderPools,
     totalPendingCompensations |-> totalPendingCompensations,
     paidOut |-> paidOut, held |-> held,
     dist |-> NoRun, reverted |-> FALSE]

\* First loop: totalPending over entries with !isPaid && amount > 0.
RECURSIVE SumPending(_, _, _)
SumPending(comps, queue, i) ==
    IF i > Len(queue) THEN 0
    ELSE LET comp == comps[queue[i]]
         IN (IF ~comp.isPaid /\ comp.amount > 0 THEN comp.amount ELSE 0)
            + SumPending(comps, queue, i + 1)

\* Faulty variant: the share is rounded up instead of down.
ProportionalPaymentRoundedUp(availableFunds, amount, totalPending) ==
    LET p == (availableFunds * amount + totalPending - 1) \div totalPending
    IN IF p > amount THEN amount ELSE p

\* (availableFunds * comp.amount) / totalPending, capped at comp.amount
ProportionalPayment(availableFunds, amount, totalPending) ==
    LET p == (availableFunds * amount) \div totalPending
    IN IF p > amount THEN amount ELSE p

RECURSIVE SumPays(_, _)
SumPays(pays, i) == IF i > Len(pays) THEN 0 ELSE pays[i].pay + SumPays(pays, i + 1)

\* Faulty variant: first come, first served; an entry takes what the earlier ones left.
EntryPaymentFifo(D, k, availableFunds, totalPending) ==
    Min(D.comps[k].amount, availableFunds - SumPays(D.dist.pays, 1))

\* The payment computed for queue entry k when the loop reaches it.
EntryPayment(D, k, availableFunds, totalPending) ==
    ProportionalPayment(availableFunds, D.comps[k].amount, totalPending)

\* Faulty variant: a payout is charged to another provider's pool when that
\* pool can bear it.
PayStepFromAnyPool(D, p, k, availableFunds, totalPending) ==
    LET comp == D.comps[k]
        claim == D.claims[k]
    IN IF ~(~comp.isPaid /\ comp.amount > 0) THEN D
       ELSE LET pay == ProportionalPayment(availableFunds, comp.amount, totalPending)
                seen == [commitment |-> k, before |-> comp.amount, pay |-> pay]
                D1 == [D EXCEPT !.dist.pays = Append(@, seen)]
                others == {q \in Providers \ {p} : D.providers[q].poolBalance >= pay}
                payer == IF others = {} THEN p ELSE CHOOSE q \in others : TRUE
            IN IF pay = 0 THEN D1
               ELSE IF \/ pay > comp.amount
                       \/ pay > claim.pendingAmount
                       \/ pay > D.providers[payer].poolBalance
                       \/ pay > D.totalProviderPools
                       \/ pay > D.totalPendingCompensations
                       \/ pay > D.held
                    THEN [D1 EXCEPT !.reverted = TRUE]
               ELSE [D1 EXCEPT
                        !.comps[k].amount = @ - pay,
                        !.comps[k].isPaid = (comp.amount - pay = 0),
                        !.claims[k].paidAmount = @ + pay,
                        !.claims[k].pendingAmount = @ - pay,
                        !.providers[payer].poolBalance = @ - pay,
                        !.totalProviderPools = @ - pay,
                        !.paidOut[k] = @ + pay,
                        !.held = @ - pay,
                        !.totalPendingCompensations = @ - pay]

\* Faulty variant: the result of the payout transfer is not checked.
PayStepTransferUnchecked(D, p, k, availableFunds, totalPending) ==
    LET comp == D.comps[k]
        claim == D.claims[k]
    IN IF ~(~comp.isPaid /\ comp.amount > 0) THEN D
       ELSE LET pay == EntryPayment(D, k, availableFunds, totalPending)
                seen == [commitment |-> k, before |-> comp.amount, pay |-> pay]
                D1 == [D EXCEPT !.dist.pays = Append(@, seen)]
            IN IF pay = 0 THEN D1
               ELSE IF \/ pay > comp.amount
                       \/ pay > claim.pendingAmount
                       \/ pay > D.providers[p].poolBalance
                       \/ pay > D.totalProviderPools
                       \/ pay > D.totalPendingCompensations
                       \/ pay > D.held
                    THEN [D1 EXCEPT !.reverted = TRUE]
               ELSE [D1 EXCEPT
                        !.comps[k].amount = @ - pay,
                        !.comps[k].isPaid = (comp.amount - pay = 0),
                        !.claims[k].paidAmount = @ + pay,
                        !.claims[k].pendingAmount = @ - pay,
                        !.providers[p].poolBalance = @ - pay,
                        !.totalProviderPools = @ - pay,
                        !.paidOut[k] = @ + pay,
                        !.held = @ - pay,
                        !.totalPendingCompensations = @ - pay]

\* One iteration of the payment loop, for queue entry k of provider p.
PayStep(D, p, k, availableFunds, totalPending) ==
    LET comp == D.comps[k]
        claim == D.claims[k]
    IN IF ~(~comp.isPaid /\ comp.amount > 0) THEN D
       ELSE LET pay == EntryPayment(D, k, availableFunds, totalPending)
                seen == [commitment |-> k, before |-> comp.amount, pay |-> pay]
                D1 == [D EXCEPT !.dist.pays = Append(@, seen)]
            IN IF pay = 0 THEN D1
               ELSE IF \/ pay > comp.amount
                       \/ pay > claim.pendingAmount
                       \/ pay > D.providers[p].poolBalance
                       \/ pay > D.totalProviderPools
                       \/ pay > D.totalPendingCompensations
                       \/ pay > D.held
                       \/ ~Transfers(Engine, claim.client)
                    THEN [D1 EXCEPT !.reverted = TRUE]
               ELSE [D1 EXCEPT
                        !.comps[k].amount = @ - pay,
                        !.comps[k].isPaid = (comp.amount - pay = 0),
                        !.claims[k].paidAmount = @ + pay,
                        !.claims[k].pendingAmount = @ - pay,
                        !.providers[p].poolBalance = @ - pay,
                        !.totalProviderPools = @ - pay,
                        !.paidOut[k] = @ + pay,
                        !.held = @ - pay,
                        !.totalPendingCompensations = @ - pay]

RECURSIVE PayLoop(_, _, _, _, _, _)
PayLoop(D, p, queue, i, availableFunds, totalPending) ==
    IF i > Len(queue) \/ D.reverted THEN D
    ELSE PayLoop(PayStep(D, p, queue[i], availableFunds, totalPending),
                 p, queue, i + 1, availableFunds, totalPending)

\* Faulty variant: settled entries are left in the queue.
CompactKeepsAll(comps, queue) == queue

\* Third loop and the pops: keep, in order, the entries not yet paid.
Compact(comps, queue) == SelectSeq(queue, LAMBDA k : ~comps[k].isPaid)

\* _processProportionalCompensations(provider)
ProcessProportionalCompensations(D, p) ==
    LET queue == D.queue[p]
        availableFunds == Available(D.providers[p])
        totalPending == SumPending(D.comps, queue, 1)
    IN IF Len(queue) = 0 THEN D
       ELSE IF availableFunds = 0 THEN D
       ELSE IF totalPending = 0 THEN D
       ELSE LET D0 == [D EXCEPT !.dist = [ran |-> TRUE, availableFunds |-> availableFunds,
                                          totalPending |-> totalPending, pays |-> <<>>]]
                D1 == PayLoop(D0, p, queue, 1, availableFunds, totalPending)
            IN IF D1.reverted THEN D1
               ELSE [D1 EXCEPT !.queue[p] = Compact(D1.comps, queue)]

\* Writes the distributor's result back to the engine state.
Commit(D) ==
    /\ providers' = D.providers
    /\ claims' = D.claims
    /\ providerPendingCompensations' = D.queue
    /\ pendingCompensations' = D.comps
    /\ totalProviderPools' = D.totalProviderPools
    /\ totalPendingCompensations' = D.totalPendingCompensations
    /\ paidOut' = D.paidOut
    /\ held' = D.held

\* ------------------------------------------------------ provider functions
\* Faulty variant: the deposit is not added to the global total.
DepositedTotalForgotten(sender, amount, register) ==
    LET pd == providers[sender]
        pd1 == IF register /\ pd.registeredAt = 0
               THEN [pd EXCEPT !.tier = 1, !.registeredAt = now] ELSE pd
        pd2 == [pd1 EXCEPT !.isActive = IF register THEN TRUE ELSE @,
                           !.poolBalance = @ + amount]
    IN [Snapshot EXCEPT !.providers[sender] = pd2, !.held = @ + amount]

\* Faulty variant: the pool is credited without the tokens being taken in.
DepositedWithoutTransfer(sender, amount, register) ==
    LET pd == providers[sender]
        pd1 == IF register /\ pd.registeredAt = 0
               THEN [pd EXCEPT !.tier = 1, !.registeredAt = now] ELSE pd
        pd2 == [pd1 EXCEPT !.isActive = IF register THEN TRUE ELSE @,
                           !.poolBalance = @ + amount]
    IN [Snapshot EXCEPT !.providers[sender] = pd2,
                        !.totalProviderPools = @ + amount]

\* State after the deposit's own writes, before the compensation trigger.
Deposited(sender, amount, register) ==
    LET pd == providers[sender]
        pd1 == IF register /\ pd.registeredAt = 0
               THEN [pd EXCEPT !.tier = 1, !.registeredAt = now] ELSE pd
        pd2 == [pd1 EXCEPT !.isActive = IF register THEN TRUE ELSE @,
                           !.poolBalance = @ + amount]
    IN [Snapshot EXCEPT !.providers[sender] = pd2,
                        !.totalProviderPools = @ + amount,
                        !.held = @ + amount]

\* Faulty variant: a deposit does not trigger the distributor.
TriggerCompensationSkipped(D, sender) == D

\* if (providerPendingCompensations[msg.sender].length > 0) _process...(msg.sender)
TriggerCompensation(D, sender) ==
    IF Len(D.queue[sender]) > 0 THEN ProcessProportionalCompensations(D, sender) ELSE D

\* The requires of registerOrReactivate.
CanRegister(sender, amount) ==
    /\ amount >= MIN_POOL_BALANCE
    /\ amount <= MAX_POOL_BALANCE

registerOrReactivate(sender, amount) ==
    LET D == TriggerCompensation(Deposited(sender, amount, TRUE), sender)
    IN /\ NonReentrant
       /\ CanRegister(sender, amount)
       /\ Transfers(sender, Engine)
       /\ ~D.reverted
       /\ Commit(D)
       /\ calls < MaxCalls
       /\ calls' = calls + 1
       /\ last' = Call("registerOrReactivate", sender, sender, "", amount, D.dist)
       /\ UNCHANGED <<emergencyPool, platformInsuranceFund, totalClaimsInitiated,
                      totalClaimsExecuted, now, ticks,
                   frozen, guardStatus, frame, lockedFor>>

\* Faulty variant: a provider that is not active may deposit.
CanDepositInactive(sender, amount) ==
    providers[sender].poolBalance + amount <= MAX_POOL_BALANCE

\* The requires of depositAdditional.
CanDeposit(sender, amount) ==
    /\ providers[sender].isActive
    /\ providers[sender].poolBalance + amount <= MAX_POOL_BALANCE

depositAdditional(sender, amount) ==
    LET D == TriggerCompensation(Deposited(sender, amount, FALSE), sender)
    IN /\ NonReentrant
       /\ CanDeposit(sender, amount)
       /\ Transfers(sender, Engine)
       /\ ~D.reverted
       /\ Commit(D)
       /\ calls < MaxCalls
       /\ calls' = calls + 1
       /\ last' = Call("depositAdditional", sender, sender, "", amount, D.dist)
       /\ UNCHANGED <<emergencyPool, platformInsuranceFund, totalClaimsInitiated,
                      totalClaimsExecuted, now, ticks,
                   frozen, guardStatus, frame, lockedFor>>

\* Faulty variant: the minimum balance is not enforced on withdrawal.
CanWithdrawBelowFloor(sender, amount) ==
    /\ providers[sender].isActive
    /\ amount <= Available(providers[sender])

\* The requires of withdraw.
CanWithdraw(sender, amount) ==
    /\ providers[sender].isActive
    /\ amount <= Available(providers[sender])
    /\ providers[sender].poolBalance - amount >= MIN_POOL_BALANCE

withdraw(sender, amount) ==
    /\ NonReentrant
    /\ CanWithdraw(sender, amount)
    /\ amount <= totalProviderPools
    /\ amount <= held
    /\ Transfers(Engine, sender)
    /\ providers' = [providers EXCEPT ![sender].poolBalance = @ - amount]
    /\ totalProviderPools' = totalProviderPools - amount
    /\ held' = held - amount
    /\ calls < MaxCalls
    /\ calls' = calls + 1
    /\ last' = Call("withdraw", sender, sender, "", amount, NoRun)
    /\ UNCHANGED <<claims, providerPendingCompensations, pendingCompensations,
                   emergencyPool, platformInsuranceFund, totalClaimsInitiated,
                   totalClaimsExecuted, totalPendingCompensations, paidOut,
                   now, ticks,
                   frozen, guardStatus, frame, lockedFor>>

\* Faulty variant: a provider may leave while claims are locked in its pool.
CanWithdrawAllWithLocks(sender) == providers[sender].isActive

\* The requires of withdrawAllAndDeactivate.
CanWithdrawAll(sender) ==
    /\ providers[sender].isActive
    /\ providers[sender].totalLocked = 0

withdrawAllAndDeactivate(sender) ==
    LET amount == providers[sender].poolBalance
    IN /\ NonReentrant
       /\ CanWithdrawAll(sender)
       /\ amount <= totalProviderPools
       /\ amount <= held
       /\ amount > 0 => Transfers(Engine, sender)
       /\ providers' = [providers EXCEPT ![sender].isActive = FALSE,
                                         ![sender].poolBalance = 0]
       /\ totalProviderPools' = totalProviderPools - amount
       /\ held' = held - amount
       /\ calls < MaxCalls
       /\ calls' = calls + 1
       /\ last' = Call("withdrawAllAndDeactivate", sender, sender, "", amount, NoRun)
       /\ UNCHANGED <<claims, providerPendingCompensations, pendingCompensations,
                      emergencyPool, platformInsuranceFund, totalClaimsInitiated,
                      totalClaimsExecuted, totalPendingCompensations, paidOut,
                      now, ticks,
                   frozen, guardStatus, frame, lockedFor>>

\* --------------------------------------------------------- claim functions
\* Faulty variant: an underfunded claim is scheduled for nothing.
ScheduledAmountAllOrNothing(amount, totalAvailable) ==
    IF totalAvailable >= amount THEN amount ELSE 0

\* The amount initiateClaim schedules for payment (actualPaidAmount).
ScheduledAmount(amount, totalAvailable) ==
    IF totalAvailable >= amount THEN amount
    ELSE IF totalAvailable > 0 THEN totalAvailable
    ELSE 0

\* The status initiateClaim gives the new claim.
ScheduledStatus(amount, totalAvailable) ==
    IF totalAvailable >= amount THEN "INITIATED" ELSE "PARTIAL"

\* Faulty variant: the lock is not capped by what the provider has available.
LockedFromProviderUncapped(actualPaidAmount, providerAvailable) ==
    IF actualPaidAmount > 0 THEN TotalRequired(actualPaidAmount) ELSE 0

\* What initiateClaim adds to the provider's totalLocked.
LockedFromProvider(actualPaidAmount, providerAvailable) ==
    IF actualPaidAmount > 0
    THEN LET actualTotalRequired == TotalRequired(actualPaidAmount)
         IN IF actualTotalRequired <= providerAvailable
            THEN actualTotalRequired ELSE providerAvailable
    ELSE 0

\* Faulty variant: the entry is recorded with nothing remaining.
RecordedCompensationEmpty(commitment, client, amount) ==
    [commitment |-> commitment, client |-> client, amount |-> 0,
     createdAt |-> now, isPaid |-> FALSE]

\* _recordPendingCompensation: the new entry.
RecordedCompensation(commitment, client, amount) ==
    [commitment |-> commitment, client |-> client, amount |-> amount,
     createdAt |-> now, isPaid |-> FALSE]

\* Faulty variant: the whole request is recorded as pending.
NewClaimAllPending(sender, provider, amount, reason, actualPaidAmount, claimStatus) ==
    [client |-> sender, provider |-> provider, requestedAmount |-> amount,
     paidAmount |-> actualPaidAmount, pendingAmount |-> amount,
     initiatedAt |-> now, disputeDeadline |-> now + GetDisputePeriod(amount),
     reason |-> reason, status |-> claimStatus]

\* The claim record written by initiateClaim.
NewClaim(sender, provider, amount, reason, actualPaidAmount, claimStatus) ==
    [client |-> sender, provider |-> provider, requestedAmount |-> amount,
     paidAmount |-> actualPaidAmount, pendingAmount |-> amount - actualPaidAmount,
     initiatedAt |-> now, disputeDeadline |-> now + GetDisputePeriod(amount),
     reason |-> reason, status |-> claimStatus]

\* Faulty variant: the strict policy, a claim the provider cannot cover is rejected.
CanInitiateIfFunded(commitment, provider, amount) ==
    /\ amount >= MIN_CLAIM_AMOUNT /\ amount <= MAX_CLAIM_AMOUNT
    /\ claims[commitment].initiatedAt = 0
    /\ providers[provider].isActive
    /\ Available(providers[provider]) >= TotalRequired(amount)

\* Faulty variant: a commitment already used can be claimed again.
CanInitiateAgain(commitment, provider, amount) ==
    /\ amount >= MIN_CLAIM_AMOUNT /\ amount <= MAX_CLAIM_AMOUNT
    /\ providers[provider].isActive

\* The requires of initiateClaim.
CanInitiate(commitment, provider, amount) ==
    /\ amount >= MIN_CLAIM_AMOUNT /\ amount <= MAX_CLAIM_AMOUNT
    /\ claims[commitment].initiatedAt = 0
    /\ providers[provider].isActive

initiateClaim(sender, commitment, provider, amount, reason) ==
    LET providerAvailable == Available(providers[provider])
        totalAvailable == providerAvailable + emergencyPool + platformInsuranceFund
        actualPaidAmount == ScheduledAmount(amount, totalAvailable)
        claim == NewClaim(sender, provider, amount, reason, actualPaidAmount,
                          ScheduledStatus(amount, totalAvailable))
    IN /\ NonReentrant
       /\ CanInitiate(commitment, provider, amount)
       /\ claims' = [claims EXCEPT ![commitment] = claim]
       /\ providers' = [providers EXCEPT ![provider].totalLocked =
                           @ + LockedFromProvider(actualPaidAmount, providerAvailable)]
       /\ IF totalAvailable >= amount
          THEN UNCHANGED <<pendingCompensations, providerPendingCompensations,
                           totalPendingCompensations>>
          ELSE /\ pendingCompensations' =
                     [pendingCompensations EXCEPT ![commitment] =
                         RecordedCompensation(commitment, sender, claim.pendingAmount)]
               /\ providerPendingCompensations' =
                     [providerPendingCompensations EXCEPT ![provider] =
                         Append(@, commitment)]
               /\ totalPendingCompensations' =
                     totalPendingCompensations + claim.pendingAmount
       /\ totalClaimsInitiated' = totalClaimsInitiated + 1
       /\ calls < MaxCalls
       /\ calls' = calls + 1
       /\ last' = Call("initiateClaim", sender, provider, commitment, amount, NoRun)
       /\ lockedFor' = [lockedFor EXCEPT ![commitment] =
             providers'[provider].totalLocked - providers[provider].totalLocked]
       /\ UNCHANGED <<totalProviderPools, emergencyPool, platformInsuranceFund,
                      totalClaimsExecuted, paidOut, held,
                      now, ticks,
                   frozen, guardStatus, frame>>

\* What executeClaim takes from the provider's pool.
FromProvider(totalRequired, poolBalance) ==
    IF totalRequired <= poolBalance THEN totalRequired ELSE poolBalance

\* Faulty variant: executeClaim leaves the lock in place.
UnlockOnExecuteForgotten(totalLocked, fromProvider) == totalLocked

\* The provider's totalLocked after executeClaim took fromProvider from its pool.
UnlockOnExecute(totalLocked, fromProvider) ==
    totalLocked - (IF fromProvider <= totalLocked THEN fromProvider ELSE totalLocked)

\* Faulty variant: the shortfall is taken from the platform fund first and
\* from the emergency pool only after the platform fund is drained.
SettlementPlatformFirst(pd, actualPaidAmount) ==
    LET penaltyAmount == Penalty(actualPaidAmount)
        platformFee == PlatformFee(actualPaidAmount)
        totalRequired == actualPaidAmount + penaltyAmount + platformFee
        fromProvider == FromProvider(totalRequired, pd.poolBalance)
        shortfall == totalRequired - fromProvider
        fromPlatform == Min(shortfall, platformInsuranceFund)
        fromEmergency == shortfall - fromPlatform
    IN [poolBalance |-> pd.poolBalance - fromProvider,
        totalLocked |-> IF fromProvider > 0
                        THEN UnlockOnExecute(pd.totalLocked, fromProvider)
                        ELSE pd.totalLocked,
        fromProvider |-> fromProvider,
        emergencyPool |-> emergencyPool - fromEmergency + penaltyAmount \div 2,
        platformInsuranceFund |->
            platformInsuranceFund - fromPlatform + penaltyAmount \div 2 + platformFee,
        reverted |-> fromProvider > totalProviderPools \/ fromEmergency > emergencyPool]

\* The three-layer deduction and the fee routing of executeClaim for a
\* scheduled amount > 0: the balances after it, and whether a subtraction
\* underflows.
Settlement(pd, actualPaidAmount) ==
    LET penaltyAmount == Penalty(actualPaidAmount)
        platformFee == PlatformFee(actualPaidAmount)
        totalRequired == actualPaidAmount + penaltyAmount + platformFee
        fromProvider == FromProvider(totalRequired, pd.poolBalance)
        fromEmergency == totalRequired - fromProvider
        short == fromProvider < totalRequired
        fromPlatform == IF short /\ fromEmergency > emergencyPool
                        THEN fromEmergency - emergencyPool ELSE 0
        emergency1 == IF ~short THEN emergencyPool
                      ELSE IF fromEmergency <= emergencyPool
                      THEN emergencyPool - fromEmergency ELSE 0
    IN [poolBalance |-> pd.poolBalance - fromProvider,
        totalLocked |-> IF fromProvider > 0
                        THEN UnlockOnExecute(pd.totalLocked, fromProvider)
                        ELSE pd.totalLocked,
        fromProvider |-> fromProvider,
        emergencyPool |-> emergency1 + penaltyAmount \div 2,
        platformInsuranceFund |->
            platformInsuranceFund - fromPlatform + penaltyAmount \div 2 + platformFee,
        reverted |-> fromProvider > totalProviderPools \/ fromPlatform > platformInsuranceFund]

\* Faulty variant: executeClaim does not close the claim.
StatusAfterExecuteStaysOpen(claim) == claim.status

\* The status executeClaim leaves the claim in.
StatusAfterExecute(claim) ==
    IF claim.pendingAmount = 0 THEN "EXECUTED" ELSE "PARTIAL"

\* Faulty variant: the dispute window is open only before the deadline.
CanExecuteAtDeadline(commitment) ==
    /\ claims[commitment].initiatedAt > 0
    /\ claims[commitment].status = "INITIATED" \/ claims[commitment].status = "PARTIAL"
    /\ now >= claims[commitment].disputeDeadline

\* Faulty variant: the claim's status is not checked.
CanExecuteAnyStatus(commitment) ==
    /\ claims[commitment].initiatedAt > 0
    /\ now > claims[commitment].disputeDeadline

\* The requires of executeClaim.
CanExecute(commitment) ==
    /\ claims[commitment].initiatedAt > 0
    /\ claims[commitment].status = "INITIATED" \/ claims[commitment].status = "PARTIAL"
    /\ now > claims[commitment].disputeDeadline

executeClaim(sender, commitment) ==
    LET claim == claims[commitment]
        p == claim.provider
        actualPaidAmount == claim.paidAmount
        pd == providers[p]
        S == Settlement(pd, actualPaidAmount)
        pd1 == IF actualPaidAmount > 0
               THEN [pd EXCEPT !.poolBalance = S.poolBalance,
                               !.totalLocked = S.totalLocked]
               ELSE pd
        pd2 == IF claim.pendingAmount = 0
               THEN [pd1 EXCEPT !.successfulServices = @ + 1] ELSE pd1
    IN /\ NonReentrant
       /\ CanExecute(commitment)
       /\ actualPaidAmount > 0 =>
              /\ ~S.reverted
              /\ actualPaidAmount <= held
              /\ Transfers(Engine, claim.client)
       /\ providers' = [providers EXCEPT ![p] = pd2]
       /\ claims' = [claims EXCEPT ![commitment].status = StatusAfterExecute(claim)]
       /\ IF actualPaidAmount > 0
          THEN /\ totalProviderPools' = totalProviderPools - S.fromProvider
               /\ emergencyPool' = S.emergencyPool
               /\ platformInsuranceFund' = S.platformInsuranceFund
               /\ paidOut' = [paidOut EXCEPT ![commitment] = @ + actualPaidAmount]
               /\ held' = held - actualPaidAmount
          ELSE UNCHANGED <<totalProviderPools, emergencyPool,
                           platformInsuranceFund, paidOut, held>>
       /\ totalClaimsExecuted' = totalClaimsExecuted + 1
       /\ calls < MaxCalls
       /\ calls' = calls + 1
       /\ last' = Call("executeClaim", sender, p, commitment, actualPaidAmount, NoRun)
       /\ UNCHANGED <<providerPendingCompensations, pendingCompensations,
                      totalClaimsInitiated, totalPendingCompensations,
                      now, ticks,
                   frozen, guardStatus, frame, lockedFor>>

\* The provider's totalLocked after disputeClaim released the claim's lock.
UnlockOnDispute(totalLocked, paidAmount) ==
    IF paidAmount > 0
    THEN LET lockedAmount == TotalRequired(paidAmount)
         IN IF lockedAmount <= totalLocked THEN totalLocked - lockedAmount ELSE 0
    ELSE totalLocked

\* Faulty variant: the caller is not checked against the claim's provider.
CanDisputeByAnyone(sender, commitment) ==
    /\ claims[commitment].initiatedAt > 0
    /\ claims[commitment].status = "INITIATED" \/ claims[commitment].status = "PARTIAL"
    /\ now <= claims[commitment].disputeDeadline

\* Faulty variant: a dispute also voids what was scheduled for the claim.
DisputedClaimVoided(claim) ==
    [claim EXCEPT !.status = "DISPUTED",
                  !.pendingAmount = @ + claim.paidAmount, !.paidAmount = 0]

\* The claim record after disputeClaim: only the status is written.
DisputedClaim(claim) == [claim EXCEPT !.status = "DISPUTED"]

\* The requires of disputeClaim.
CanDispute(sender, commitment) ==
    /\ claims[commitment].initiatedAt > 0
    /\ claims[commitment].provider = sender
    /\ claims[commitment].status = "INITIATED" \/ claims[commitment].status = "PARTIAL"
    /\ now <= claims[commitment].disputeDeadline

\* Faulty variant: the lock released by a dispute is handed to the distributor.
disputeClaimThenDistribute(sender, commitment) ==
    LET D0 == [Snapshot EXCEPT
                  !.claims[commitment] = DisputedClaim(@),
                  !.providers[sender].totalLocked =
                      UnlockOnDispute(@, claims[commitment].paidAmount)]
        D == TriggerCompensation(D0, sender)
    IN /\ CanDispute(sender, commitment)
       /\ ~D.reverted
       /\ Commit(D)
       /\ calls < MaxCalls
       /\ calls' = calls + 1
       /\ last' = Call("disputeClaim", sender, sender, commitment, 0, D.dist)
       /\ UNCHANGED <<emergencyPool, platformInsuranceFund, totalClaimsInitiated,
                      totalClaimsExecuted, now, ticks,
                   frozen, guardStatus, frame, lockedFor>>

disputeClaim(sender, commitment) ==
    /\ CanDispute(sender, commitment)
    /\ claims' = [claims EXCEPT ![commitment] = DisputedClaim(@)]
    /\ providers' = [providers EXCEPT ![sender].totalLocked =
                        UnlockOnDispute(@, claims[commitment].paidAmount)]
    /\ calls < MaxCalls
    /\ calls' = calls + 1
    /\ last' = Call("disputeClaim", sender, sender, commitment, 0, NoRun)
    /\ UNCHANGED <<providerPendingCompensations, pendingCompensations,
                   totalProviderPools, emergencyPool, platformInsuranceFund,
                   totalClaimsInitiated, totalClaimsExecuted,
                   totalPendingCompensations, paidOut, held,
                   now, ticks,
                   frozen, guardStatus, frame, lockedFor>>

\* ------------------------------------------------------------ view functions
\* canAcceptService(provider, serviceAmount): the pair it returns.
canAcceptService(provider, serviceAmount) ==
    LET data == providers[provider]
        available == Available(data)
        maxExposure == (data.poolBalance * MAX_EXPOSURE_RATIO) \div 10000
    IN IF ~data.isActive
       THEN [canAccept |-> FALSE, reason |-> "Provider not active"]
       ELSE IF available = 0
       THEN [canAccept |-> TRUE,
             reason |-> "Warning: No funds available, claim will be deferred"]
       ELSE IF available < serviceAmount
       THEN [canAccept |-> TRUE,
             reason |-> "Warning: Partial payment possible, remainder will be deferred"]
       ELSE IF data.totalLocked + serviceAmount > maxExposure
       THEN [canAccept |-> TRUE,
             reason |-> "Warning: Near exposure limit, partial payment likely"]
       ELSE [canAccept |-> TRUE, reason |-> "OK"]

\* getProviderPendingCompensations(provider): the entries of the queue with
\* !isPaid && amount > 0, in queue order, their amounts and the total.
getProviderPendingCompensations(provider) ==
    LET valid == SelectSeq(providerPendingCompensations[provider],
                           LAMBDA k : ~pendingCompensations[k].isPaid
                                      /\ pendingCompensations[k].amount > 0)
    IN [commitments |-> valid,
        amounts |-> [i \in 1 .. Len(valid) |-> pendingCompensations[valid[i]].amount],
        totalAmount |-> SumPending(pendingCompensations,
                                   providerPendingCompensations[provider], 1)]

\* ---------------------------------------------------------- admin functions
fundEmergencyPool(sender, amount) ==
    /\ sender = Owner
    /\ Transfers(sender, Engine)
    /\ emergencyPool' = emergencyPool + amount
    /\ held' = held + amount
    /\ calls < MaxCalls
    /\ calls' = calls + 1
    /\ last' = Call("fundEmergencyPool", sender, NoAddress, "", amount, NoRun)
    /\ UNCHANGED <<providers, claims, providerPendingCompensations,
                   pendingCompensations, totalProviderPools, platformInsuranceFund,
                   totalClaimsInitiated, totalClaimsExecuted,
                   totalPendingCompensations, paidOut, now, ticks,
                   frozen, guardStatus, frame, lockedFor>>

fundPlatformInsurance(sender, amount) ==
    /\ sender = Owner
    /\ Transfers(sender, Engine)
    /\ platformInsuranceFund' = platformInsuranceFund + amount
    /\ held' = held + amount
    /\ calls < MaxCalls
    /\ calls' = calls + 1
    /\ last' = Call("fundPlatformInsurance", sender, NoAddress, "", amount, NoRun)
    /\ UNCHANGED <<providers, claims, providerPendingCompensations,
                   pendingCompensations, totalProviderPools, emergencyPool,
                   totalClaimsInitiated, totalClaimsExecuted,
                   totalPendingCompensations, paidOut, now, ticks,
                   frozen, guardStatus, frame, lockedFor>>

\* ------------------------------------------------------------------- clock
\* Time passes between transactions.
Tick ==
    /\ ticks < MaxTicks
    /\ now' = now + 1 * minutes
    /\ ticks' = ticks + 1
    /\ UNCHANGED <<engine, calls, last, frozen, guardStatus, frame, lockedFor>>

\* ------------------------------------------------------------ specification
\* The commitments a client submits: one already used, or the first unused
\* one (commitments are interchangeable, so the order of first use is fixed).
Used(k) == claims[k].initiatedAt > 0
SubmittedCommitments ==
    {CommitmentOrder[i] : i \in {j \in 1 .. Len(CommitmentOrder) :
        \A h \in 1 .. (j - 1) : Used(CommitmentOrder[h])}}

Next ==
    \/ \E p \in Providers, a \in RegisterAmounts : registerOrReactivate(p, a)
    \/ \E p \in Providers, a \in DepositAmounts : depositAdditional(p, a)
    \/ \E p \in Providers, a \in WithdrawAmounts : withdraw(p, a)
    \/ \E p \in Providers : withdrawAllAndDeactivate(p)
    \/ \E c \in Clients, k \in SubmittedCommitments, p \in Providers,
          a \in ClaimAmounts, r \in ClaimReasons : initiateClaim(c, k, p, a, r)
    \/ \E c \in Clients, k \in Commitments : executeClaim(c, k)
    \/ \E s \in Providers \cup Clients, k \in Commitments : disputeClaim(s, k)
    \/ \E s \in {Owner} \cup Clients, a \in FundAmounts : fundEmergencyPool(s, a)
    \/ \E s \in {Owner} \cup Clients, a \in FundAmounts : fundPlatformInsurance(s, a)
    \/ Tick

Spec == Init /\ [][Next]_vars

\* ------------------------------------------- calls suspended in a transfer
\* usdcToken.transfer hands control to the token, which may call the
\* recipient back before it returns.  The three functions that pay out are
\* split here at that point: ...Transfer is the function up to the moment the
\* ledger has moved the funds and the recipient's callback runs, ...Resume is
\* the rest of the function after the transfer has returned.
withdrawTransfer(sender, amount) ==
    /\ NonReentrant
    /\ CanWithdraw(sender, amount)
    /\ amount <= totalProviderPools
    /\ amount <= held
    /\ Transfers(Engine, sender)
    /\ guardStatus' = "ENTERED"
    /\ providers' = [providers EXCEPT ![sender].poolBalance = @ - amount]
    /\ totalProviderPools' = totalProviderPools - amount
    /\ held' = held - amount
    /\ frame' = [op |-> "withdraw", sender |-> sender, commitment |-> "",
                 amount |-> amount]
    /\ calls < MaxCalls
    /\ calls' = calls + 1
    /\ UNCHANGED <<claims, providerPendingCompensations, pendingCompensations,
                   emergencyPool, platformInsuranceFund, totalClaimsInitiated,
                   totalClaimsExecuted, totalPendingCompensations, paidOut,
                   now, ticks, last, frozen, lockedFor>>

withdrawResume ==
    /\ frame.op = "withdraw"
    /\ guardStatus' = "NOT_ENTERED"
    /\ frame' = NoFrame
    /\ last' = Call("withdraw", frame.sender, frame.sender, "", frame.amount, NoRun)
    /\ UNCHANGED <<engine, now, ticks, calls, frozen, lockedFor>>

withdrawAllAndDeactivateTransfer(sender) ==
    LET amount == providers[sender].poolBalance
    IN /\ NonReentrant
       /\ CanWithdrawAll(sender)
       /\ amount <= totalProviderPools
       /\ amount <= held
       /\ amount > 0
       /\ Transfers(Engine, sender)
       /\ guardStatus' = "ENTERED"
       /\ providers' = [providers EXCEPT ![sender].isActive = FALSE,
                                         ![sender].poolBalance = 0]
       /\ totalProviderPools' = totalProviderPools - amount
       /\ held' = held - amount
       /\ frame' = [op |-> "withdrawAllAndDeactivate", sender |-> sender,
                    commitment |-> "", amount |-> amount]
       /\ calls < MaxCalls
       /\ calls' = calls + 1
       /\ UNCHANGED <<claims, providerPendingCompensations, pendingCompensations,
                      emergencyPool, platformInsuranceFund, totalClaimsInitiated,
                      totalClaimsExecuted, totalPendingCompensations, paidOut,
                      now, ticks, last, frozen, lockedFor>>

withdrawAllAndDeactivateResume ==
    /\ frame.op = "withdrawAllAndDeactivate"
    /\ guardStatus' = "NOT_ENTERED"
    /\ frame' = NoFrame
    /\ last' = Call("withdrawAllAndDeactivate", frame.sender, frame.sender, "",
                    frame.amount, NoRun)
    /\ UNCHANGED <<engine, now, ticks, calls, frozen, lockedFor>>

\* executeClaim of a claim with paidAmount > 0, through the deductions, the
\* fee routing and the transfer to the client.
executeClaimTransfer(sender, commitment) ==
    LET claim == claims[commitment]
        p == claim.provider
        actualPaidAmount == claim.paidAmount
        pd == providers[p]
        S == Settlement(pd, actualPaidAmount)
    IN /\ NonReentrant
       /\ CanExecute(commitment)
       /\ actualPaidAmount > 0
       /\ ~S.reverted
       /\ actualPaidAmount <= held
       /\ Transfers(Engine, claim.client)
       /\ guardStatus' = "ENTERED"
       /\ providers' = [providers EXCEPT ![p].poolBalance = S.poolBalance,
                                         ![p].totalLocked = S.totalLocked]
       /\ totalProviderPools' = totalProviderPools - S.fromProvider
       /\ emergencyPool' = S.emergencyPool
       /\ platformInsuranceFund' = S.platformInsuranceFund
       /\ paidOut' = [paidOut EXCEPT ![commitment] = @ + actualPaidAmount]
       /\ held' = held - actualPaidAmount
       /\ frame' = [op |-> "executeClaim", sender |-> sender,
                    commitment |-> commitment, amount |-> actualPaidAmount]
       /\ calls < MaxCalls
       /\ calls' = calls + 1
       /\ UNCHANGED <<claims, providerPendingCompensations, pendingCompensations,
                      totalClaimsInitiated, totalClaimsExecuted,
                      totalPendingCompensations, now, ticks, last, frozen, lockedFor>>

\* executeClaim after the transfer: the status update and the counters.
executeClaimResume ==
    LET commitment == frame.commitment
        claim == claims[commitment]
        p == claim.provider
    IN /\ frame.op = "executeClaim"
       /\ claims' = [claims EXCEPT ![commitment].status = StatusAfterExecute(claim)]
       /\ providers' = IF claim.pendingAmount = 0
                       THEN [providers EXCEPT ![p].successfulServices = @ + 1]
                       ELSE providers
       /\ totalClaimsExecuted' = totalClaimsExecuted + 1
       /\ guardStatus' = "NOT_ENTERED"
       /\ frame' = NoFrame
       /\ last' = Call("executeClaim", frame.sender, p, commitment, frame.amount, NoRun)
       /\ UNCHANGED <<providerPendingCompensations, pendingCompensations,
                      totalProviderPools, emergencyPool, platformInsuranceFund,
                      totalClaimsInitiated, totalPendingCompensations, paidOut,
                      held, now, ticks, calls, frozen, lockedFor>>

\* The engine with its paying functions split at the transfer.  While a call
\* is suspended the recipient's callback may call any function, as any
\* sender; the clock stands still inside a transaction.
NextReentry ==
    \/ \E p \in Providers, a \in RegisterAmounts : registerOrReactivate(p, a)
    \/ \E p \in Providers, a \in DepositAmounts : depositAdditional(p, a)
    \/ \E p \in Providers, a \in WithdrawAmounts : withdrawTransfer(p, a)
    \/ withdrawResume
    \/ \E p \in Providers : withdrawAllAndDeactivateTransfer(p)
    \/ withdrawAllAndDeactivateResume
    \/ \E c \in Clients, k \in SubmittedCommitments, p \in Providers,
          a \in ClaimAmounts, r \in ClaimReasons : initiateClaim(c, k, p, a, r)
    \/ \E c \in Clients, k \in Commitments : executeClaimTransfer(c, k)
    \/ executeClaimResume
    \/ \E c \in Clients, k \in Commitments :
          claims[k].paidAmount = 0 /\ executeClaim(c, k)
    \/ \E s \in Providers \cup Clients, k \in Commitments : disputeClaim(s, k)
    \/ frame = NoFrame /\ Tick

SpecReentry == Init /\ [][NextReentry]_vars

\* ------------------------------------------------------- the token ledger
\* The ledger freezes an account: from then on every transfer from or to it
\* fails.
Freeze(account) ==
    /\ frozen = {}
    /\ frozen' = {account}
    /\ UNCHANGED <<engine, now, ticks, calls, last, guardStatus, frame, lockedFor>>

\* The engine of one provider and two clients on a ledger that may freeze
\* one of their accounts or the owner's.
LedgerClients == {"c1", "c2"}
LedgerClaimAmounts == {10 * USDC}

NextLedger ==
    \/ \E a \in RegisterAmounts : registerOrReactivate("p1", a)
    \/ \E a \in DepositAmounts : depositAdditional("p1", a)
    \/ \E a \in WithdrawAmounts : withdraw("p1", a)
    \/ withdrawAllAndDeactivate("p1")
    \/ \E c \in LedgerClients, k \in SubmittedCommitments,
          a \in LedgerClaimAmounts, r \in ClaimReasons : initiateClaim(c, k, "p1", a, r)
    \/ \E k \in Commitments : executeClaim("c1", k)
    \/ \E a \in FundAmounts : fundEmergencyPool(Owner, a)
    \/ \E a \in FundAmounts : fundPlatformInsurance(Owner, a)
    \/ \E account \in {"p1", Owner} \cup LedgerClients : Freeze(account)
    \/ Tick

SpecLedger == Init /\ [][NextLedger]_vars

\* The engine of one provider with claims of half its pool and of its whole
\* pool, so that a partly scheduled claim leaves enough in the pool to be
\* paid more than once.
RepeatClaimAmounts == {5 * USDC, 10 * USDC}

NextRepeat ==
    \/ ~providers["p1"].isActive /\ registerOrReactivate("p1", 10 * USDC)
    \/ \E a \in DepositAmounts : depositAdditional("p1", a)
    \/ \E k \in SubmittedCommitments, a \in RepeatClaimAmounts, r \in ClaimReasons :
          initiateClaim("c1", k, "p1", a, r)
    \/ \E k \in Commitments : executeClaim("c1", k)
    \/ \E k \in Commitments : disputeClaim("p1", k)
    \/ Tick

SpecRepeat == Init /\ [][NextRepeat]_vars

\* =================================================================== claims
RECURSIVE SumOver(_, _)
SumOver(S, f) ==
    IF S = {} THEN 0
    ELSE LET x == CHOOSE y \in S : TRUE IN f[x] + SumOver(S \ {x}, f)

InQueue(q) == {q[i] : i \in 1 .. Len(q)}

\* The step is a call of one of the two deposit functions.
DepositStep ==
    /\ calls' = calls + 1
    /\ last'.op \in {"registerOrReactivate", "depositAdditional"}

\* The step is a call of initiateClaim.
InitiateStep == calls' = calls + 1 /\ last'.op = "initiateClaim"

\* The unsettled entries of provider p's queue, before the step.
Unsettled(p) ==
    {k \in InQueue(providerPendingCompensations[p]) :
        ~pendingCompensations[k].isPaid /\ pendingCompensations[k].amount > 0}

Remaining == [k \in Commitments |-> pendingCompensations[k].amount]

\* What the step sent to the client of claim k.
SentTo(k) == paidOut'[k] - paidOut[k]

\* The funds a deposit of amount by p makes available to the distributor.
AvailableAfterDeposit(p, amount) ==
    LET b == providers[p].poolBalance + amount
    IN IF b > providers[p].totalLocked THEN b - providers[p].totalLocked ELSE 0

\* C1: for every claim, in every reachable state,
\* paidAmount + pendingAmount == requestedAmount.
C1_PaidPlusPendingIsRequested ==
    \A k \in Commitments :
        claims[k].paidAmount + claims[k].pendingAmount = claims[k].requestedAmount

\* A claim partly compensated by a distributor run and still owed something.
C1_Witness ==
    /\ last.op = "depositAdditional"
    /\ last.dist.ran
    /\ \E k \in Commitments :
          /\ claims[k].pendingAmount > 0
          /\ claims[k].paidAmount > 0
          /\ paidOut[k] > 0

\* C2: for every provider, in every reachable state, poolBalance >= 0 and
\* totalLocked <= poolBalance.
C2_LockedWithinPool ==
    \A p \in Providers :
        /\ providers[p].poolBalance >= 0
        /\ providers[p].totalLocked <= providers[p].poolBalance

\* executeClaim has drawn from a pool that still holds another claim's lock.
C2_Witness ==
    /\ last.op = "executeClaim"
    /\ last.amount > 0
    /\ providers[last.provider].totalLocked > 0
    /\ providers[last.provider].totalLocked <= providers[last.provider].poolBalance

\* C3: in every reachable state totalProviderPools equals the sum of
\* poolBalance over all providers.
C3_TotalIsSumOfPools ==
    totalProviderPools = SumOver(Providers, [p \in Providers |-> providers[p].poolBalance])

\* Two funded providers, one of them just drawn on by executeClaim.
C3_Witness ==
    /\ last.op = "executeClaim"
    /\ last.amount > 0
    /\ \A p \in Providers : providers[p].poolBalance > 0
    /\ \E p, q \in Providers : providers[p].poolBalance # providers[q].poolBalance

\* C4: for every claim, the cumulative amount transferred to the claim's
\* client (by executeClaim and by distributor payouts together) never exceeds
\* the claim's requestedAmount.
C4_NoOverPayment ==
    \A k \in Commitments : paidOut[k] <= claims[k].requestedAmount

\* C5: in one distributor run with available funds A over unsettled entries
\* with remaining amounts r_i summing to T, each entry is paid
\* min(r_i, floor(A*r_i/T)), which is floor(A*r_i/T) when A < T, and the total
\* paid out never exceeds A.
C5_ProportionalShares ==
    [][DepositStep =>
        LET p == last'.sender
            A == AvailableAfterDeposit(p, last'.amount)
            U == Unsettled(p)
            T == SumOver(U, Remaining)
        IN (U # {} /\ A > 0) =>
              /\ \A k \in U :
                    /\ SentTo(k) = Min(Remaining[k], (A * Remaining[k]) \div T)
                    /\ A < T => SentTo(k) = (A * Remaining[k]) \div T
              /\ SumOver(U, [k \in Commitments |-> SentTo(k)]) <= A
              /\ \A k \in Commitments \ U : SentTo(k) = 0
    ]_vars

\* A run with A < T over two entries of different size, where rounding down
\* leaves part of A undistributed.
C5_Witness ==
    /\ last.op = "depositAdditional"
    /\ last.dist.ran
    /\ last.dist.availableFunds < last.dist.totalPending
    /\ Len(last.dist.pays) = 2
    /\ last.dist.pays[1].before # last.dist.pays[2].before
    /\ last.dist.pays[1].pay > 0
    /\ last.dist.pays[1].pay + last.dist.pays[2].pay < last.dist.availableFunds

C7_DecisionRule ==
    [][InitiateStep =>
        LET k == last'.commitment
            p == last'.provider
            amount == last'.amount
            available == (providers[p].poolBalance - providers[p].totalLocked)
                            + emergencyPool + platformInsuranceFund
            c == claims'[k]
            entryAdded ==
                /\ providerPendingCompensations' =
                      [providerPendingCompensations EXCEPT ![p] = Append(@, k)]
                /\ pendingCompensations'[k].amount = c.pendingAmount
                /\ ~pendingCompensations'[k].isPaid
        IN /\ c.requestedAmount = amount
           /\ available >= amount =>
                 /\ c.paidAmount = amount /\ c.pendingAmount = 0
                 /\ c.status = "INITIATED"
                 /\ UNCHANGED <<providerPendingCompensations, pendingCompensations>>
           /\ (0 < available /\ available < amount) =>
                 /\ c.paidAmount = available /\ c.pendingAmount = amount - available
                 /\ c.status = "PARTIAL"
                 /\ entryAdded
           /\ available = 0 =>
                 /\ c.paidAmount = 0 /\ c.pendingAmount = amount
                 /\ c.status = "PARTIAL"
                 /\ entryAdded
    ]_vars

\* A claim was scheduled for part of its amount (case b).
C7_Witness ==
    /\ last.op = "initiateClaim"
    /\ claims[last.commitment].status = "PARTIAL"
    /\ claims[last.commitment].paidAmount > 0
    /\ claims[last.commitment].pendingAmount > 0
    /\ pendingCompensations[last.commitment].amount = claims[last.commitment].pendingAmount

\* The state right after a provider with 10.00 and nothing else in the pools
\* received three claims of equal size, one after another.
ThreeClaimsAgainstTen(p, size) ==
    /\ calls = 4
    /\ last.op = "initiateClaim"
    /\ emergencyPool = 0 /\ platformInsuranceFund = 0
    /\ providers[p].poolBalance = 10 * USDC
    /\ \A k \in Commitments :
          /\ claims[k].provider = p
          /\ claims[k].requestedAmount = size
          /\ claims[k].status \in {"INITIATED", "PARTIAL"}

\* C8 (Scenario B): three claims of 4.00 against 10.00 available are each
\* scheduled for 3.33 (10*4/12 rounded down) with 0.67 pending, and three
\* claims of 10.00 each for 3.33 with 6.67 pending.
C8_ScenarioB ==
    \A p \in Providers, n \in {4, 10} :
        ThreeClaimsAgainstTen(p, n * USDC) =>
            \A k \in Commitments :
                /\ claims[k].paidAmount = (10 * USDC * n) \div (3 * n)
                /\ claims[k].pendingAmount = n * USDC - (10 * USDC * n) \div (3 * n)

\* C9: initiateClaim with an amount inside the claim bounds, an unused
\* commitment and an active provider goes through whatever funds are
\* available, including none.
C9_UnderfundingIsNoError ==
    \A c \in Clients, k \in Commitments, p \in Providers,
       a \in ClaimAmounts \cup {MIN_CLAIM_AMOUNT}, r \in ClaimReasons :
        ( /\ calls < MaxCalls
          /\ a >= MIN_CLAIM_AMOUNT /\ a <= MAX_CLAIM_AMOUNT
          /\ claims[k].initiatedAt = 0
          /\ providers[p].isActive )
        => ENABLED initiateClaim(c, k, p, a, r)

\* A claim went through against a provider with no funds available at all:
\* nothing scheduled, everything owed, and the obligation is recorded.
C9_Witness ==
    /\ last.op = "initiateClaim"
    /\ claims[last.commitment].status = "PARTIAL"
    /\ claims[last.commitment].paidAmount = 0
    /\ claims[last.commitment].pendingAmount = last.amount
    /\ last.commitment \in InQueue(providerPendingCompensations[last.provider])

\* C10: a deposit by a provider with unsettled entries runs the distributor
\* inside the same call; if the available funds after the deposit are at
\* least the total remaining, every entry is paid in full and the queue is
\* empty when the call returns.
C10_DepositTriggersCompensation ==
    [][DepositStep =>
        LET p == last'.sender
            A == AvailableAfterDeposit(p, last'.amount)
            U == Unsettled(p)
            T == SumOver(U, Remaining)
        IN /\ (U # {} /\ A > 0) => last'.dist.ran
           /\ (U # {} /\ A >= T) =>
                 /\ providerPendingCompensations'[p] = <<>>
                 /\ \A k \in U : /\ claims'[k].pendingAmount = 0
                                 /\ SentTo(k) = Remaining[k]
    ]_vars

\* A deposit covered everything owed and left the queue empty.
C10_Witness ==
    /\ last.op \in {"registerOrReactivate", "depositAdditional"}
    /\ last.dist.ran
    /\ last.dist.availableFunds >= last.dist.totalPending
    /\ providerPendingCompensations[last.sender] = <<>>
    /\ \E k \in Commitments :
          /\ claims[k].provider = last.sender
          /\ paidOut[k] > 0
          /\ claims[k].pendingAmount = 0

\* The claim can still be settled: it exists and is Initiated or Partial.
Open(k) ==
    /\ claims[k].initiatedAt > 0
    /\ claims[k].status \in {"INITIATED", "PARTIAL"}

\* C11: executeClaim is refused if the claim does not exist, if its status
\* is not Initiated or Partial, or if now <= disputeDeadline; so a call of
\* executeClaim that went through, and any payment it made, came strictly
\* after the claim's dispute deadline.
C11_ExecuteOnlyAfterDeadline ==
    /\ \A c \in Clients \cup Providers, k \in Commitments :
          (~Open(k) \/ now <= claims[k].disputeDeadline) => ~ENABLED executeClaim(c, k)
    /\ last.op = "executeClaim" => now > claims[last.commitment].disputeDeadline

\* One claim was paid by executeClaim after its deadline while another, funded
\* and open, stands exactly at its deadline, where the call is still refused.
C11_Witness ==
    /\ last.op = "executeClaim"
    /\ paidOut[last.commitment] > 0
    /\ calls < MaxCalls
    /\ \E k \in Commitments :
          /\ Open(k)
          /\ claims[k].paidAmount > 0
          /\ now = claims[k].disputeDeadline

\* C12: disputeClaim goes through only when called by the claim's own
\* provider, on an existing claim in status Initiated or Partial, at a time
\* now <= disputeDeadline; for any other caller, any other status, or a time
\* past the deadline the call is refused.
C12_DisputeOnlyByProviderInWindow ==
    /\ \A s \in Providers \cup Clients \cup {Owner}, k \in Commitments :
          ENABLED disputeClaim(s, k) =>
              /\ Open(k)
              /\ claims[k].provider = s
              /\ now <= claims[k].disputeDeadline
    /\ last.op = "disputeClaim" =>
          /\ claims[last.commitment].provider = last.sender
          /\ claims[last.commitment].status = "DISPUTED"

\* A provider disputed one claim exactly at its deadline; an earlier claim
\* against the same provider is still open but past its own deadline.
C12_Witness ==
    /\ last.op = "disputeClaim"
    /\ now = claims[last.commitment].disputeDeadline
    /\ calls < MaxCalls
    /\ \E k \in Commitments :
          /\ Open(k)
          /\ claims[k].provider = last.sender
          /\ now > claims[k].disputeDeadline

\* The step is a call of executeClaim.
ExecuteStep == calls' = calls + 1 /\ last'.op = "executeClaim"

\* C13 (Scenario A, generalised): executeClaim on a claim scheduled for full
\* payment (status Initiated, pendingAmount = 0) transfers exactly
\* requestedAmount to the client, sets the status to Executed with
\* pendingAmount = 0, and adds one to the provider's successful count.
C13_FullClaimPaidInFull ==
    [][ExecuteStep =>
        LET k == last'.commitment
            p == claims[k].provider
        IN (claims[k].status = "INITIATED" /\ claims[k].pendingAmount = 0) =>
              /\ SentTo(k) = claims[k].requestedAmount
              /\ held' = held - claims[k].requestedAmount
              /\ claims'[k].status = "EXECUTED"
              /\ claims'[k].pendingAmount = 0
              /\ providers'[p].successfulServices = providers[p].successfulServices + 1
    ]_vars

\* Scenario A: a provider registered with 10.00, one claim against it, paid
\* in full by executeClaim after the dispute window.
C13_Witness ==
    /\ last.op = "executeClaim"
    /\ calls = 3
    /\ LET k == last.commitment
           p == last.provider
       IN /\ claims[k].status = "EXECUTED"
          /\ claims[k].pendingAmount = 0
          /\ paidOut[k] = claims[k].requestedAmount
          /\ paidOut[k] > 0
          /\ now > claims[k].disputeDeadline
          /\ providers[p].successfulServices = 1
          /\ providers[p].poolBalance = 10 * USDC - TotalRequired(paidOut[k])

\* The step is a call of disputeClaim.
DisputeStep == calls' = calls + 1 /\ last'.op = "disputeClaim"

\* C14 (Scenario D): a disputeClaim that goes through moves no funds: every
\* provider's poolBalance, totalProviderPools, emergencyPool, platformFund,
\* the claim's paidAmount and pendingAmount and the provider's compensation
\* queue are unchanged and nothing is transferred; only the claim's status
\* (to Disputed) and the provider's totalLocked change.
C14_DisputeMovesNoFunds ==
    [][DisputeStep =>
        LET k == last'.commitment
            p == last'.sender
        IN /\ claims' = [claims EXCEPT ![k].status = "DISPUTED"]
           /\ providers' = [providers EXCEPT ![p].totalLocked = providers'[p].totalLocked]
           /\ UNCHANGED <<totalProviderPools, emergencyPool, platformInsuranceFund,
                          providerPendingCompensations, pendingCompensations,
                          totalPendingCompensations, totalClaimsInitiated,
                          totalClaimsExecuted, paidOut, held>>
    ]_vars

\* A provider disputed a partly funded claim: the lock is released, the
\* scheduled and the owed amount stand, and the entry is still queued.
C14_Witness ==
    /\ last.op = "disputeClaim"
    /\ LET k == last.commitment
           p == last.sender
       IN /\ claims[k].status = "DISPUTED"
          /\ claims[k].paidAmount > 0
          /\ claims[k].pendingAmount > 0
          /\ k \in InQueue(providerPendingCompensations[p])
          /\ providers[p].poolBalance > 0
          /\ providers[p].totalLocked < providers[p].poolBalance
          /\ paidOut[k] = 0

\* What a run of the distributor for provider p would do to the present state.
RunAgain(p) == ProcessProportionalCompensations(Snapshot, p)

\* The run D left the engine state as it is: no claim, no entry, no queue, no
\* balance changed and nothing was transferred.
ChangesNothing(D) ==
    /\ ~D.reverted
    /\ D.providers = providers
    /\ D.claims = claims
    /\ D.queue = providerPendingCompensations
    /\ D.comps = pendingCompensations
    /\ D.totalProviderPools = totalProviderPools
    /\ D.totalPendingCompensations = totalPendingCompensations
    /\ D.paidOut = paidOut
    /\ D.held = held

\* One provider with 10.00 and claims that exhaust it, so that up to three
\* entries of very different size wait in its queue; deposits of 6.00 and of
\* nothing (depositAdditional has no minimum).
DustClaimAmounts == {10 * USDC + 1, MIN_CLAIM_AMOUNT, 10 * USDC}
DustDeposits == {6 * USDC, 0}

NextDust ==
    \/ registerOrReactivate("p1", 10 * USDC)
    \/ \E k \in SubmittedCommitments, a \in DustClaimAmounts, r \in ClaimReasons :
          initiateClaim("c1", k, "p1", a, r)
    \/ \E a \in DustDeposits : depositAdditional("p1", a)

SpecDust == Init /\ [][NextDust]_vars

\* C15: the distributor is idempotent: right after a deposit-triggered run
\* for a provider, a second run for the same provider with no new funds and
\* no other operation in between changes no claim, no queue entry, no balance
\* and transfers nothing; and with an empty queue or zero available funds a
\* run is a no-op.
C15_DistributorIdempotent ==
    \A p \in Providers :
        /\ (last.op \in {"registerOrReactivate", "depositAdditional"} /\ last.sender = p)
              => ChangesNothing(RunAgain(p))
        /\ (providerPendingCompensations[p] = <<>> \/ Available(providers[p]) = 0)
              => ChangesNothing(RunAgain(p))

\* C16: execution never runs out of funds: for every claim in status
\* Initiated or Partial whose dispute deadline has passed, executeClaim goes
\* through; the provider's pool, emergencyPool and platformFund together
\* cover the required amount, so the call is never refused for lack of funds.
C16_ExecutionNeverRefused ==
    \A c \in Clients, k \in Commitments :
        (calls < MaxCalls /\ Open(k) /\ now > claims[k].disputeDeadline)
            => ENABLED executeClaim(c, k)

\* C17: three-layer deduction order in executeClaim: the required amount
\* (scheduled amount + penalty + fee) is taken first from the provider's
\* poolBalance, up to the whole balance, then the shortfall from
\* emergencyPool, and from platformFund only what emergencyPool, drained to
\* zero, could not cover; neither is debited while the pool covers the
\* required amount.  Debits are net of the penalty and fee the same call
\* credits to the two funds.
C17_ThreeLayerOrder ==
    [][(ExecuteStep /\ last'.amount > 0) =>
        LET k == last'.commitment
            p == claims[k].provider
            paid == claims[k].paidAmount
            required == TotalRequired(paid)
            pool == providers[p].poolBalance
            fromPool == pool - providers'[p].poolBalance
            fromEmergency == emergencyPool + Penalty(paid) \div 2 - emergencyPool'
            fromPlatform == platformInsuranceFund + Penalty(paid) \div 2
                               + PlatformFee(paid) - platformInsuranceFund'
        IN /\ fromPool = Min(required, pool)
           /\ fromEmergency = Min(required - fromPool, emergencyPool)
           /\ fromPlatform = required - fromPool - fromEmergency
           /\ fromPlatform > 0 => fromEmergency = emergencyPool
           /\ pool >= required => (fromEmergency = 0 /\ fromPlatform = 0)
    ]_vars

\* A claim of 10.00 executed against a pool of 10.00 with 1.00 in each fund:
\* the pool is emptied, the emergency pool drained (it holds only its share
\* of the penalty), and the last 0.10 came from the platform fund.
C17_Witness ==
    /\ last.op = "executeClaim"
    /\ last.amount = 10 * USDC
    /\ providers[last.provider].poolBalance = 0
    /\ emergencyPool = Penalty(last.amount) \div 2
    /\ platformInsuranceFund =
          1 * USDC - (TotalRequired(last.amount) - 10 * USDC - 1 * USDC)
             + Penalty(last.amount) \div 2 + PlatformFee(last.amount)

\* The step is a call of withdraw.
WithdrawStep == calls' = calls + 1 /\ last'.op = "withdraw"

\* C18: withdraw(amount) is refused if amount > poolBalance - totalLocked or
\* if poolBalance - amount would be below the minimum balance (Scenario E);
\* when it goes through, poolBalance and totalProviderPools both decrease by
\* exactly amount, totalLocked is unchanged and the provider stays active.
C18_WithdrawWithinAvailableAboveFloor ==
    [][/\ \A p \in Providers, a \in WithdrawAmounts :
             ( \/ a > providers[p].poolBalance - providers[p].totalLocked
               \/ providers[p].poolBalance - a < MIN_POOL_BALANCE )
             => ~ENABLED withdraw(p, a)
       /\ WithdrawStep =>
             LET p == last'.sender
                 a == last'.amount
             IN /\ providers' = [providers EXCEPT ![p].poolBalance = @ - a]
                /\ totalProviderPools' = totalProviderPools - a
                /\ providers'[p].totalLocked = providers[p].totalLocked
                /\ providers'[p].isActive
                /\ providers'[p].poolBalance >= MIN_POOL_BALANCE
                /\ held' = held - a
    ]_vars

\* A provider with a claim locked in its pool withdrew down to the minimum
\* balance; the same withdrawal again would go below it (Scenario E) and is
\* refused.
C18_Witness ==
    /\ last.op = "withdraw"
    /\ calls < MaxCalls
    /\ LET p == last.sender
       IN /\ providers[p].isActive
          /\ providers[p].totalLocked > 0
          /\ providers[p].poolBalance >= MIN_POOL_BALANCE
          /\ providers[p].poolBalance - last.amount < MIN_POOL_BALANCE
          /\ ~ENABLED withdraw(p, last.amount)

\* The step is a call of withdrawAllAndDeactivate.
WithdrawAllStep == calls' = calls + 1 /\ last'.op = "withdrawAllAndDeactivate"

\* C19, as stated: for a provider that has registered,
\* withdrawAllAndDeactivate is refused whenever its totalLocked != 0 and goes
\* through otherwise.
C19_WithdrawAllUnlessLocked ==
    \A p \in Providers :
        providers[p].registeredAt > 0 =>
            /\ providers[p].totalLocked # 0 => ~ENABLED withdrawAllAndDeactivate(p)
            /\ (calls < MaxCalls /\ providers[p].totalLocked = 0)
                  => ENABLED withdrawAllAndDeactivate(p)

\* C19, amended: withdrawAllAndDeactivate is refused whenever the provider
\* is not active or its totalLocked != 0; for an active provider with
\* totalLocked = 0 it goes through, sets poolBalance to 0, marks the provider
\* inactive, reduces totalProviderPools by the former balance and transfers
\* exactly that balance out; no claim can be opened against an inactive
\* provider.
C19_WithdrawAllActiveUnlocked ==
    [][/\ \A p \in Providers :
             /\ (~providers[p].isActive \/ providers[p].totalLocked # 0)
                   => ~ENABLED withdrawAllAndDeactivate(p)
             /\ (calls < MaxCalls /\ providers[p].isActive /\ providers[p].totalLocked = 0)
                   => ENABLED withdrawAllAndDeactivate(p)
             /\ ~providers[p].isActive =>
                   \A c \in Clients, k \in Commitments, a \in ClaimAmounts, r \in ClaimReasons :
                       ~ENABLED initiateClaim(c, k, p, a, r)
       /\ WithdrawAllStep =>
             LET p == last'.sender
                 former == providers[p].poolBalance
             IN /\ providers' = [providers EXCEPT ![p].poolBalance = 0,
                                                   ![p].isActive = FALSE]
                /\ totalProviderPools' = totalProviderPools - former
                /\ held' = held - former
                /\ last'.amount = former
    ]_vars

\* A registered provider withdrew its whole balance and is inactive, with a
\* commitment still unused that a client could submit against it; the other
\* provider cannot leave, a claim is locked in its pool.
C19_Witness ==
    /\ last.op = "withdrawAllAndDeactivate"
    /\ last.amount > 0
    /\ calls < MaxCalls
    /\ ~providers[last.sender].isActive
    /\ providers[last.sender].poolBalance = 0
    /\ \E k \in Commitments : ~Used(k)
    /\ \E q \in Providers : providers[q].isActive /\ providers[q].totalLocked # 0

\* Amounts a client may submit, with the nearest ones outside the bounds.
SubmittedAmounts ==
    ClaimAmounts \cup {0, MIN_CLAIM_AMOUNT - 1, MIN_CLAIM_AMOUNT,
                       MAX_CLAIM_AMOUNT, MAX_CLAIM_AMOUNT + 1}

\* C20: initiateClaim is refused, creating no claim, if amount is outside
\* [MIN_CLAIM_AMOUNT, MAX_CLAIM_AMOUNT], if the commitment already names a
\* claim (whatever that claim's status by now), or if the named provider is
\* not active.
C20_InitiateRefused ==
    /\ \A c \in Clients, k \in Commitments, p \in Providers,
          a \in SubmittedAmounts, r \in ClaimReasons :
          ( \/ a < MIN_CLAIM_AMOUNT \/ a > MAX_CLAIM_AMOUNT
            \/ Used(k)
            \/ ~providers[p].isActive )
          => ~ENABLED initiateClaim(c, k, p, a, r)
    /\ last.op = "initiateClaim" =>
          /\ last.amount >= MIN_CLAIM_AMOUNT /\ last.amount <= MAX_CLAIM_AMOUNT
          /\ claims[last.commitment].requestedAmount = last.amount
          /\ claims[last.commitment].provider = last.provider

\* A claim was opened while an earlier one is already disputed or executed
\* (its commitment stays taken) and one provider is not active.
C20_Witness ==
    /\ last.op = "initiateClaim"
    /\ calls < MaxCalls
    /\ \E k \in Commitments \ {last.commitment} :
          Used(k) /\ claims[k].status \in {"EXECUTED", "DISPUTED"}
    /\ \E p \in Providers : ~providers[p].isActive

\* C21, as stated: depositAdditional is refused if the deposited amount is
\* below MIN_POOL_BALANCE or above MAX_POOL_BALANCE (the checks of
\* registerOrReactivate) or if the provider is not active.
C21_DepositSameChecksAsRegister ==
    \A p \in Providers, a \in DepositAmounts \cup {0, MAX_POOL_BALANCE + 1} :
        ( \/ a < MIN_POOL_BALANCE \/ a > MAX_POOL_BALANCE
          \/ ~providers[p].isActive )
        => ~ENABLED depositAdditional(p, a)

\* No require of depositAdditional(p, a) fails and nothing in it reverts.
DepositGoesThrough(p, a) ==
    /\ CanDeposit(p, a)
    /\ ~TriggerCompensation(Deposited(p, a, FALSE), p).reverted

\* C21, amended: depositAdditional is refused if the provider is not active
\* or if poolBalance + amount would exceed MAX_POOL_BALANCE; it applies no
\* minimum to the deposited amount, so an active provider's deposit of any
\* amount that keeps the balance within the ceiling goes through.
C21_DepositActiveWithinCeiling ==
    /\ \A p \in Providers, a \in DepositAmounts \cup {0, MAX_POOL_BALANCE, MAX_POOL_BALANCE + 1} :
          ( \/ ~providers[p].isActive
            \/ providers[p].poolBalance + a > MAX_POOL_BALANCE )
          => ~ENABLED depositAdditional(p, a)
    /\ \A p \in Providers, a \in DepositAmounts \cup {0, 1} :
          ( /\ providers[p].isActive
            /\ providers[p].poolBalance + a <= MAX_POOL_BALANCE )
          => DepositGoesThrough(p, a)
    /\ last.op = "depositAdditional" => providers[last.sender].isActive

\* An active provider deposited less than the registration minimum while the
\* other provider, not active, cannot deposit at all.
C21_Witness ==
    /\ last.op = "depositAdditional"
    /\ last.amount > 0
    /\ last.amount < MIN_POOL_BALANCE
    /\ calls < MaxCalls
    /\ providers[last.sender].isActive
    /\ providers[last.sender].poolBalance >= last.amount
    /\ \E q \in Providers : ~providers[q].isActive

\* C22: when a distributor payout brings a claim's pendingAmount to zero the
\* distributor marks the claim Executed, and a claim it leaves with
\* pendingAmount > 0 keeps its status; so after a distributor run no claim
\* it paid has pendingAmount = 0 together with status Partial.
C22_PaidOffClaimIsExecuted ==
    [][DepositStep =>
        \A k \in Commitments :
            SentTo(k) > 0 =>
                /\ claims'[k].pendingAmount = 0 => claims'[k].status = "EXECUTED"
                /\ claims'[k].pendingAmount > 0 => claims'[k].status = claims[k].status
                /\ ~(claims'[k].pendingAmount = 0 /\ claims'[k].status = "PARTIAL")
    ]_vars

\* Provider p has available funds of which the distributor would pay a
\* positive share to one of its unsettled entries.
Undistributed(p) ==
    LET A == Available(providers[p])
        U == Unsettled(p)
        T == SumOver(U, Remaining)
    IN A > 0 /\ \E k \in U : (A * Remaining[k]) \div T > 0

\* C23, as stated: the distributor runs whenever a provider's available
\* funds increase, also when disputeClaim or executeClaim releases a lock,
\* so no state is left in which a provider has available funds A > 0 and an
\* unsettled entry with floor(A*r_i/T) > 0.
C23_NothingLeftUndistributed == \A p \in Providers : ~Undistributed(p)

\* C23, amended: the distributor runs in deposits only.  A call of any other
\* function, also one that raises a provider's available funds, runs no
\* distribution: it changes no compensation entry and no pendingAmount of
\* an existing claim, removes nothing from a queue, and transfers nothing
\* except executeClaim's payment to the client of the executed claim.
C23_DistributorRunsInDepositsOnly ==
    [][(calls' = calls + 1 /\ ~DepositStep) =>
        /\ ~last'.dist.ran
        /\ \A k \in Commitments :
              /\ Used(k) => /\ pendingCompensations'[k] = pendingCompensations[k]
                            /\ claims'[k].pendingAmount = claims[k].pendingAmount
                            /\ claims'[k].paidAmount = claims[k].paidAmount
              /\ SentTo(k) > 0 => (last'.op = "executeClaim" /\ last'.commitment = k)
        /\ \A p \in Providers :
              InQueue(providerPendingCompensations[p])
                 \subseteq InQueue(providerPendingCompensations'[p])
    ]_vars

\* A dispute released a lock: the provider now has available funds and an
\* unsettled entry they could pay, and nothing was distributed.
C23_Witness ==
    /\ last.op = "disputeClaim"
    /\ ~last.dist.ran
    /\ Undistributed(last.sender)
    /\ claims[last.commitment].paidAmount > 0

\* The tier the documented thresholds give a pool balance: Bronze (1) from
\* 10 USDC, Silver (2) from 100 USDC, Gold (3) from 1000 USDC.
TierOf(poolBalance) ==
    IF poolBalance >= 1000 * USDC THEN 3
    ELSE IF poolBalance >= 100 * USDC THEN 2
    ELSE IF poolBalance >= 10 * USDC THEN 1
    ELSE 0

\* Providers registering and topping up with amounts at each tier's
\* threshold, and withdrawing again.
TierAmounts == {10 * USDC, 100 * USDC, 1000 * USDC}

NextTier ==
    \/ \E p \in Providers, a \in TierAmounts : registerOrReactivate(p, a)
    \/ \E p \in Providers, a \in TierAmounts : depositAdditional(p, a)
    \/ \E p \in Providers, a \in TierAmounts : withdraw(p, a)
    \/ \E p \in Providers : withdrawAllAndDeactivate(p)

SpecTier == Init /\ [][NextTier]_vars

\* C24: a provider's tier is a function of its current poolBalance: an
\* active provider holding at least the minimum balance has the tier the
\* thresholds give that balance.
C24_TierFollowsBalance ==
    \A p \in Providers :
        (providers[p].isActive /\ providers[p].poolBalance >= MIN_POOL_BALANCE)
            => providers[p].tier = TierOf(providers[p].poolBalance)

\* One provider, registered once, and claims at and just above each limit of
\* the dispute period table, disputed or executed while the clock advances.
WindowAmounts ==
    {10 * USDC, 10 * USDC + 1, 100 * USDC, 100 * USDC + 1, 1000 * USDC, 1000 * USDC + 1}

NextWindow ==
    \/ ~providers["p1"].isActive /\ registerOrReactivate("p1", 10 * USDC)
    \/ \E k \in SubmittedCommitments, a \in WindowAmounts, r \in ClaimReasons :
          initiateClaim("c1", k, "p1", a, r)
    \/ \E k \in Commitments : executeClaim("c1", k)
    \/ \E k \in Commitments : disputeClaim("p1", k)
    \/ Tick

SpecWindow == Init /\ [][NextWindow]_vars

\* C25: every claim's disputeDeadline is its initiatedAt plus the window for
\* its requestedAmount: 1 minute up to 10 USDC, 5 minutes up to 100, 15
\* minutes up to 1000 and 30 minutes above; and no later operation changes
\* the deadline.
C25_DeadlineFromTable ==
    [][\A k \in Commitments :
          /\ claims'[k].initiatedAt > 0 =>
                LET a == claims'[k].requestedAmount
                    window == IF a <= 10 * USDC THEN 60
                              ELSE IF a <= 100 * USDC THEN 300
                              ELSE IF a <= 1000 * USDC THEN 900
                              ELSE 1800
                IN claims'[k].disputeDeadline = claims'[k].initiatedAt + window
          /\ claims[k].initiatedAt > 0 =>
                /\ claims'[k].disputeDeadline = claims[k].disputeDeadline
                /\ claims'[k].initiatedAt = claims[k].initiatedAt
                /\ claims'[k].requestedAmount = claims[k].requestedAmount
    ]_vars

\* A claim of exactly 100 USDC, with a 5 minute window, was disputed after
\* the clock had advanced, next to a claim of 1000.01 with its 30 minutes.
C25_Witness ==
    /\ last.op = "disputeClaim"
    /\ claims[last.commitment].requestedAmount = 100 * USDC
    /\ claims[last.commitment].disputeDeadline = claims[last.commitment].initiatedAt + 300
    /\ now > claims[last.commitment].initiatedAt
    /\ \E k \in Commitments :
          /\ claims[k].requestedAmount = 1000 * USDC + 1
          /\ claims[k].disputeDeadline = claims[k].initiatedAt + 1800

\* What initiateClaim would schedule for a claim of amount a against p now.
WouldSchedule(p, a) ==
    ScheduledAmount(a, Available(providers[p]) + emergencyPool + platformInsuranceFund)

\* C26: for an active provider the answer of canAcceptService agrees with
\* what initiateClaim would do in the same state: it reports full payment
\* exactly when initiateClaim would schedule the whole amount, partial
\* payment exactly when it would schedule 0 < paidAmount < amount, and
\* deferral exactly when it would schedule nothing.
C26_ViewAgreesWithInitiate ==
    \A p \in Providers, a \in ClaimAmounts :
        providers[p].isActive =>
            LET answer == canAcceptService(p, a).reason
                paid == WouldSchedule(p, a)
            IN /\ answer \in {"OK", "Warning: Near exposure limit, partial payment likely"}
                    <=> paid = a
               /\ answer = "Warning: Partial payment possible, remainder will be deferred"
                    <=> (0 < paid /\ paid < a)
               /\ answer = "Warning: No funds available, claim will be deferred"
                    <=> paid = 0

\* C30: provider isolation.  A call that concerns provider P (its deposit or
\* withdrawal, a claim initiated, executed or disputed against it, the
\* distributor run of its deposit) leaves the poolBalance, the totalLocked and
\* the PendingCompensation queue, entries included, of every other provider
\* as they were.
QueueEntries(q) ==
    [i \in 1..Len(providerPendingCompensations[q]) |->
        pendingCompensations[providerPendingCompensations[q][i]]]

C30_ProviderIsolation ==
    [][(calls' = calls + 1 /\ last'.provider \in Providers) =>
        \A q \in Providers \ {last'.provider} :
            /\ providers'[q].poolBalance = providers[q].poolBalance
            /\ providers'[q].totalLocked = providers[q].totalLocked
            /\ providerPendingCompensations'[q] = providerPendingCompensations[q]
            /\ QueueEntries(q)' = QueueEntries(q)]_vars

\* A deposit of one provider was distributed to its clients while another
\* provider held collateral; one provider's claim was executed while another
\* had funds locked.
C30_Witness ==
    \E q \in Providers \ {last.provider} :
        /\ last.op \in {"registerOrReactivate", "depositAdditional"}
        /\ last.dist.ran
        /\ \E i \in 1..Len(last.dist.pays) : last.dist.pays[i].pay > 0
        /\ providers[q].poolBalance > 0

\* C27: reentrancy guard.  While a state-mutating function is executing (the
\* guard is entered and stays entered over the step), no nested call of
\* registerOrReactivate, depositAdditional, withdraw, withdrawAllAndDeactivate,
\* initiateClaim, executeClaim or disputeClaim goes through: the engine state
\* is not changed until the suspended function resumes.
C27_NestedCallsRejected ==
    [][(guardStatus = "ENTERED" /\ guardStatus' = "ENTERED") =>
        (calls' = calls /\ last' = last /\ engine' = engine)]_vars

\* C28: commit before transfer.  When the transfer of a paying function
\* returns, the function writes nothing more: every balance decrement and
\* status transition was committed before the transfer was issued, so the
\* state a callback saw was the function's final state.
C28_CommittedBeforeTransfer ==
    [][(frame # NoFrame /\ frame' = NoFrame) => engine' = engine]_vars

\* C29: atomic failure.  A call whose ledger transfer fails, in or out, does
\* not go through, so it leaves every piece of engine state as it was: no
\* call that went through took funds from a frozen account (a registration,
\* a deposit, a funding) or sent funds to one (a withdrawal, the execution of
\* a claim, any payout of the distributor run of a deposit, whatever the run
\* paid to the entries before it).
PayoutFails(p, amount) ==
    LET queue == providerPendingCompensations[p]
        totalPending == SumPending(pendingCompensations, queue, 1)
    IN \E i \in 1 .. Len(queue) :
          LET comp == pendingCompensations[queue[i]]
          IN /\ ~comp.isPaid
             /\ comp.amount > 0
             /\ claims[queue[i]].client \in frozen
             /\ ProportionalPayment(AvailableAfterDeposit(p, amount), comp.amount,
                                    totalPending) > 0

C29_FailedTransferFailsCall ==
    [][calls' = calls + 1 =>
        /\ last'.op \in {"registerOrReactivate", "depositAdditional",
                          "fundEmergencyPool", "fundPlatformInsurance"}
              => last'.sender \notin frozen
        /\ last'.op \in {"registerOrReactivate", "depositAdditional"}
              => /\ ~PayoutFails(last'.sender, last'.amount)
                 /\ \A i \in 1 .. Len(last'.dist.pays) :
                       last'.dist.pays[i].pay > 0
                           => claims[last'.dist.pays[i].commitment].client \notin frozen
        /\ (last'.op \in {"withdraw", "withdrawAllAndDeactivate"} /\ last'.amount > 0)
              => last'.sender \notin frozen
        /\ (last'.op = "executeClaim" /\ last'.amount > 0)
              => claims[last'.commitment].client \notin frozen]_vars

\* The second client of a queue of two is frozen: the deposit would pay the
\* first entry and fail at the second, and it does not go through.
C29_Witness ==
    LET queue == providerPendingCompensations["p1"]
        a == 6 * USDC
    IN /\ frozen = {"c2"}
       /\ providers["p1"].isActive
       /\ Len(queue) = 2
       /\ claims[queue[1]].client = "c1"
       /\ claims[queue[2]].client = "c2"
       /\ ProportionalPayment(AvailableAfterDeposit("p1", a),
                              pendingCompensations[queue[1]].amount,
                              SumPending(pendingCompensations, queue, 1)) > 0
       /\ PayoutFails("p1", a)
       /\ CanDeposit("p1", a)
       /\ ~ENABLED depositAdditional("p1", a)

\* C31: fee routing conserves currency.  An executeClaim that goes through
\* with scheduled amount a > 0 credits emergencyPool and platformFund with
\* penalty + fee in total, so totalProviderPools + emergencyPool +
\* platformInsuranceFund decreases by exactly a, the amount sent to the client.
Books == totalProviderPools + emergencyPool + platformInsuranceFund

C32_LockRule ==
    [][InitiateStep =>
        LET p == last'.provider
            s == claims'[last'.commitment].paidAmount
            providerAvailable == providers[p].poolBalance - providers[p].totalLocked
            required == s + (s * 1000) \div 10000 + (s * 100) \div 10000
        IN /\ providers'[p].totalLocked = providers[p].totalLocked +
                  (IF s = 0 THEN 0
                   ELSE IF providerAvailable <= required
                   THEN providerAvailable ELSE required)
           /\ \A q \in Providers :
                 /\ providers'[q].poolBalance = providers[q].poolBalance
                 /\ q # p => providers'[q].totalLocked = providers[q].totalLocked
           /\ emergencyPool' = emergencyPool
           /\ platformInsuranceFund' = platformInsuranceFund
           /\ totalProviderPools' = totalProviderPools]_vars

\* A claim was scheduled for more than the provider could lock: the lock was
\* capped and took all that was available.
C32_Witness ==
    /\ last.op = "initiateClaim"
    /\ claims[last.commitment].paidAmount > 0
    /\ providers[last.provider].totalLocked = providers[last.provider].poolBalance
    /\ providers[last.provider].totalLocked
           < SumOver({k \in Commitments : claims[k].provider = last.provider},
                     [k \in Commitments |-> TotalRequired(claims[k].paidAmount)])

\* C33: disputeClaim releases exactly what was locked for the disputed claim:
\* the provider's totalLocked decreases by precisely the amount initiateClaim
\* added to it for that claim, so the locks of the provider's other claims
\* are left intact.
C33_DisputeReleasesItsLock ==
    [][DisputeStep =>
        providers'[last'.provider].totalLocked =
            providers[last'.provider].totalLocked - lockedFor[last'.commitment]]_vars

\* C34: queue compaction.  In every state a provider's PendingCompensation
\* queue holds exactly the claims against that provider with pendingAmount > 0,
\* each once, in the order they were initiated, each entry's remaining amount
\* equal to its claim's pendingAmount (so no entry with nothing remaining
\* survives a distributor run), and getProviderPendingCompensations returns
\* these entries with the sum of their remaining amounts as the total.
OrderOf(k) == CHOOSE i \in 1 .. Len(CommitmentOrder) : CommitmentOrder[i] = k

C34_QueueHoldsExactlyThePending ==
    \A p \in Providers :
        LET queue == providerPendingCompensations[p]
            got == getProviderPendingCompensations(p)
        IN /\ InQueue(queue) = {k \in Commitments : /\ claims[k].initiatedAt > 0
                                                     /\ claims[k].provider = p
                                                     /\ claims[k].pendingAmount > 0}
           /\ \A i, j \in 1 .. Len(queue) : i < j => OrderOf(queue[i]) < OrderOf(queue[j])
           /\ \A k \in InQueue(queue) :
                 /\ pendingCompensations[k].amount = claims[k].pendingAmount
                 /\ ~pendingCompensations[k].isPaid
           /\ got.commitments = queue
           /\ \A i \in 1 .. Len(queue) : got.amounts[i] = claims[queue[i]].pendingAmount
           /\ got.totalAmount =
                 SumOver(InQueue(queue), [k \in Commitments |-> claims[k].pendingAmount])

\* A distributor run settled an entry in full and the entry left the queue.
C34_Witness ==
    /\ last.op \in {"registerOrReactivate", "depositAdditional"}
    /\ last.dist.ran
    /\ \E i \in 1 .. Len(last.dist.pays) :
          /\ last.dist.pays[i].pay = last.dist.pays[i].before
          /\ last.dist.pays[i].commitment
                \notin InQueue(providerPendingCompensations[last.provider])
          /\ claims[last.dist.pays[i].commitment].pendingAmount = 0

\* C35: a claim's scheduled payment is paid out at most once: executeClaim
\* goes through, and transfers the scheduled amount, at most once per claim,
\* claims left Partial by their first execution included.  In particular no
\* two successive calls execute the same claim and both pay its client.
C35_ExecutedAtMostOnce ==
    [][(ExecuteStep /\ last'.amount > 0) =>
        ~(/\ last.op = "executeClaim"
          /\ last.commitment = last'.commitment
          /\ last.amount > 0)]_vars

\* C36: once a claim is Disputed, no step transfers funds to its client and
\* its paidAmount and pendingAmount never change again, a later deposit of
\* the provider with its distributor run included.
C36_DisputedClaimIsFrozen ==
    [][\A k \in Commitments :
          claims[k].status = "DISPUTED" =>
              /\ SentTo(k) = 0
              /\ claims'[k].paidAmount = claims[k].paidAmount
              /\ claims'[k].pendingAmount = claims[k].pendingAmount]_vars

\* C37: claim status transitions follow a fixed graph.  A claim is created
\* as Initiated or Partial; executeClaim takes Initiated to Executed and
\* Partial to Partial or Executed; disputeClaim takes Initiated or Partial to
\* Disputed; no other step changes a status, so Executed and Disputed are
\* absorbing, and Rejected is never reached.
C37_StatusGraph ==
    [][\A k \in Commitments :
          LET old == claims[k].status
              new == claims'[k].status
          IN IF claims[k].initiatedAt = 0
             THEN claims'[k].initiatedAt > 0 => new \in {"INITIATED", "PARTIAL"}
             ELSE /\ new # "REJECTED"
                  /\ old \in {"EXECUTED", "DISPUTED"} => new = old
                  /\ new # old =>
                        <<old, new>> \in {<<"INITIATED", "EXECUTED">>,
                                          <<"INITIATED", "DISPUTED">>,
                                          <<"PARTIAL", "EXECUTED">>,
                                          <<"PARTIAL", "DISPUTED">>}
                  /\ (ExecuteStep /\ last'.commitment = k) =>
                        \/ old = "INITIATED" /\ new = "EXECUTED"
                        \/ old = "PARTIAL" /\ new \in {"PARTIAL", "EXECUTED"}
                  /\ (DisputeStep /\ last'.commitment = k) =>
                        old \in {"INITIATED", "PARTIAL"} /\ new = "DISPUTED"
                  /\ (new # old) =>
                        (ExecuteStep \/ DisputeStep) /\ last'.commitment = k]_vars

\* One claim was paid off by the distributor and then executed from Partial
\* to Executed.
C37_Witness ==
    /\ last.op = "executeClaim"
    /\ claims[last.commitment].status = "EXECUTED"
    /\ pendingCompensations[last.commitment].isPaid

\* C38: in every state totalPendingCompensations equals the sum of
\* pendingAmount over all claims, which equals the sum of the remaining
\* amounts over the entries of all providers' PendingCompensation queues.
C38_TotalPendingIsSum ==
    LET queued == UNION {InQueue(providerPendingCompensations[p]) : p \in Providers}
    IN /\ totalPendingCompensations =
             SumOver(Commitments, [k \in Commitments |-> claims[k].pendingAmount])
       /\ totalPendingCompensations =
             SumOver(queued, [k \in Commitments |-> pendingCompensations[k].amount])

\* A distributor run has paid a part of an entry and the rest is still
\* pending.
C38_Witness ==
    /\ totalPendingCompensations > 0
    /\ last.dist.ran
    /\ \E i \in 1 .. Len(last.dist.pays) :
          /\ last.dist.pays[i].pay > 0
          /\ last.dist.pays[i].pay < last.dist.pays[i].before

\* C39: solvency of the books.  In every state totalProviderPools +
\* emergencyPool + platformInsuranceFund is at most the engine's net holdings
\* on the token ledger (all that deposits and fundings transferred in, less
\* all that withdrawals, executions and distributor payouts transferred out).
C39_BooksBacked == Books <= held

\* Funds have come in and an execution has paid a client out of them.
C39_Witness ==
    /\ last.op = "executeClaim"
    /\ last.amount > 0
    /\ paidOut[last.commitment] > 0
    /\ Books > 0

====
